---- MODULE Spec2Model ----
(***************************************************************************)
(* Model of chonkie.embeddings.base.BaseEmbeddings: the abstract contract  *)
(* of an embeddings provider (construction-time dependency acquisition,    *)
(* embed / embed_batch, callable dispatch, cosine similarity and the       *)
(* abstract capabilities).                                                 *)
(***************************************************************************)
EXTENDS Integers, Sequences, FiniteSets, TLC

VARIABLES
    numpyInstalled, \* whether importlib can find the numpy distribution
    sysModules,     \* the interpreter's module cache entry for "numpy"
    loads,          \* how many numpy module objects have been created so far
    np,             \* the module-global name np of base.py
    instances,      \* classes of the provider instances that exist
    lastOp,         \* the operation that ran last and its arguments
    result,         \* what that operation returned or raised
    callLog,        \* the methods of self the operation invoked, in order
    pc,             \* per thread: position inside a concurrent construction
    tcls,           \* per thread: the class being constructed
    tmod,           \* per thread: the module object its import produced
    tobs,           \* per thread: the binding seen when construction returned
    twrote          \* per thread: whether this construction assigned np

vars == <<numpyInstalled, sysModules, loads, np, instances, lastOp, result,
          callLog, pc, tcls, tmod, tobs, twrote>>

seqVars == <<instances, lastOp, result, callLog>>
thrVars == <<pc, tcls, tmod, tobs, twrote>>
envVars == <<numpyInstalled, sysModules, loads, np>>

(***************************************************************************)
(* Bounds                                                                  *)
(***************************************************************************)
MaxLen == 3
MaxInstances == 2
NThreads == 2
MaxCoord == 1

(***************************************************************************)
(* Values                                                                  *)
(***************************************************************************)
Texts == {"a", "ab"}

\* the characters of a text, what iterating over a str yields
Chars(t) == IF t = "ab" THEN <<"a", "b">> ELSE <<t>>

TextLists == UNION {[1..n -> Texts] : n \in 0..MaxLen}

\* a name that is not bound, a cache entry that is absent
Unbound == [name |-> "unbound", id |-> 0]
NoModule == [name |-> "none", id |-> 0]

Return(v) == [kind |-> "return", val |-> v, exc |-> "", msg |-> ""]
Raise(e, m) == [kind |-> "raise", val |-> "", exc |-> e, msg |-> m]

Call(m, a) == [m |-> m, arg |-> a]

\* the arguments a caller can hand to __call__
StrArg(t) == [type |-> "str", val |-> t]
ListArg(s) == [type |-> "list", val |-> s]
TupleArg(s) == [type |-> "tuple", val |-> s]
IntArg == [type |-> "int", val |-> 7]
NoneArg == [type |-> "NoneType", val |-> 0]

StrArgs == {StrArg(t) : t \in Texts}
ListArgs == {ListArg(s) : s \in TextLists}
TupleArgs == {TupleArg(s) : s \in TextLists}
OtherArgs == {IntArg, NoneArg}

(***************************************************************************)
(* Provider classes: what a concrete subclass defines itself.              *)
(*   embed, dimension, tok : "none"  the class does not define the method  *)
(*                           "super" it defines it by delegating to the    *)
(*                                   base body                             *)
(*                           "own"   it defines it with its own body       *)
(*   avail : "base" | "true" | "false"   is_available                      *)
(*   batch : "base" | "own"              embed_batch                       *)
(*   deps  : "base" | "extend" | "replace"   _import_dependencies          *)
(*   failOn: the texts on which the provider's own embed fails             *)
(***************************************************************************)
Cls(n, e, d, t, a, b, dp, f) ==
    [name |-> n, embed |-> e, dimension |-> d, tok |-> t, avail |-> a,
     batch |-> b, deps |-> dp, failOn |-> f]

Classes ==
    { Cls("Plain",      "own",   "own",   "own",   "base",  "base", "base",    {"ab"}),
      Cls("Batched",    "own",   "own",   "own",   "base",  "own",  "base",    {"ab"}),
      Cls("AvailTrue",  "own",   "own",   "own",   "true",  "base", "base",    {}),
      Cls("AvailFalse", "own",   "own",   "own",   "false", "base", "base",    {}),
      Cls("Extends",    "own",   "own",   "own",   "base",  "base", "extend",  {}),
      Cls("Replaces",   "own",   "own",   "own",   "base",  "base", "replace", {}),
      Cls("Delegates",  "super", "super", "super", "base",  "base", "base",    {}),
      Cls("NoEmbed",    "none",  "own",   "own",   "base",  "base", "base",    {}),
      Cls("NoDim",      "own",   "none",  "own",   "base",  "base", "base",    {}),
      Cls("NoTok",      "own",   "own",   "none",  "base",  "base", "base",    {}) }

\* the message of base.py:77, without the backquotes around the command
ImportErrorMsg == "numpy is not available. Please install it via pip install chonkie[semantic]"
ValueErrorMsg == "Input must be a string or list of strings"

(***************************************************************************)
(* The capabilities a concrete provider supplies                           *)
(***************************************************************************)
\* the Vector a provider's own embed computes for a text (dimension 2)
Vec(t) == IF t = "a" THEN <<1, 0>> ELSE IF t = "ab" THEN <<1, 1>> ELSE <<0, 1>>

\* a concrete provider's own embed: a Vector, or its own failure
OwnEmbed(c, t) ==
    IF t \in c.failOn THEN Raise("EmbeddingFailure", t) ELSE Return(Vec(t))

\* the body of BaseEmbeddings.embed
BaseEmbed(t) == Raise("NotImplementedError", "")

\* variant: the abstract property answers a default instead of raising
BaseDimension_default == Return(0)

\* the body of BaseEmbeddings.dimension
BaseDimension == Raise("NotImplementedError", "")

\* the body of BaseEmbeddings.get_tokenizer_or_token_counter
BaseTokenizer == Raise("NotImplementedError", "")

\* the body of BaseEmbeddings.is_available: find_spec("numpy") is not None
BaseIsAvailable(installed) == installed

\* self.embed(text), resolved on the instance's class
embed(c, t) == IF c.embed = "own" THEN OwnEmbed(c, t) ELSE BaseEmbed(t)

\* self.dimension
dimension(c) == IF c.dimension = "own" THEN Return(2) ELSE BaseDimension

\* self.get_tokenizer_or_token_counter()
get_tokenizer_or_token_counter(c) ==
    IF c.tok = "own" THEN Return("count_tokens") ELSE BaseTokenizer

\* self.is_available()
is_available(c, installed) ==
    CASE c.avail = "true" -> TRUE
      [] c.avail = "false" -> FALSE
      [] OTHER -> BaseIsAvailable(installed)

(***************************************************************************)
(* embed_batch                                                             *)
(***************************************************************************)
Out(r, l) == [res |-> r, log |-> l]

\* variant: a failing text is skipped and the rest of the batch is embedded
RECURSIVE BatchFrom_skip(_, _, _, _, _)
BatchFrom_skip(c, texts, i, acc, log) ==
    IF i > Len(texts)
    THEN Out(Return(acc), log)
    ELSE LET r == embed(c, texts[i])
             l == Append(log, Call("embed", texts[i]))
         IN IF r.kind = "raise"
            THEN BatchFrom_skip(c, texts, i + 1, acc, l)
            ELSE BatchFrom_skip(c, texts, i + 1, Append(acc, r.val), l)

\* the list comprehension of the default embed_batch from index i on:
\* acc holds the vectors computed so far, log the embed calls made so far
RECURSIVE BatchFrom(_, _, _, _, _)
BatchFrom(c, texts, i, acc, log) ==
    IF i > Len(texts)
    THEN Out(Return(acc), log)
    ELSE LET r == embed(c, texts[i])
             l == Append(log, Call("embed", texts[i]))
         IN IF r.kind = "raise"
            THEN Out(r, l)
            ELSE BatchFrom(c, texts, i + 1, Append(acc, r.val), l)

\* the texts without their repetitions, in order of first occurrence
RECURSIVE Dedup(_)
Dedup(texts) ==
    IF texts = <<>> THEN <<>>
    ELSE LET front == Dedup(SubSeq(texts, 1, Len(texts) - 1))
             last == texts[Len(texts)]
         IN IF \E i \in 1..Len(front) : front[i] = last
            THEN front ELSE Append(front, last)

\* variant: each distinct text is embedded once
BaseEmbedBatch_dedup(c, texts) == BatchFrom(c, Dedup(texts), 1, <<>>, <<>>)

\* BaseEmbeddings.embed_batch
BaseEmbedBatch(c, texts) == BatchFrom(c, texts, 1, <<>>, <<>>)

\* a provider's own embed_batch: one batched computation, no call to embed
OwnEmbedBatch(c, texts) ==
    IF \E i \in 1..Len(texts) : texts[i] \in c.failOn
    THEN Out(Raise("EmbeddingFailure", "batch"), <<>>)
    ELSE Out(Return([i \in 1..Len(texts) |-> Vec(texts[i])]), <<>>)

\* self.embed_batch(texts), resolved on the instance's class
embed_batch(c, texts) ==
    IF c.batch = "own" THEN OwnEmbedBatch(c, texts) ELSE BaseEmbedBatch(c, texts)

(***************************************************************************)
(* __call__                                                                *)
(***************************************************************************)
\* variant: a str is iterated like any other sequence
call_chars(c, text) ==
    IF text.type \in {"str", "list"}
    THEN LET s == IF text.type = "str" THEN Chars(text.val) ELSE text.val
             o == embed_batch(c, s)
         IN Out(o.res, <<Call("embed_batch", s)>> \o o.log)
    ELSE Out(Raise("ValueError", ValueErrorMsg), <<>>)

\* variant: the final else branch falls through and None is returned
call_lenient(c, text) ==
    IF text.type = "str"
    THEN Out(embed(c, text.val), <<Call("embed", text.val)>>)
    ELSE IF text.type = "list"
    THEN LET o == embed_batch(c, text.val)
         IN Out(o.res, <<Call("embed_batch", text.val)>> \o o.log)
    ELSE Out(Return("None"), <<>>)

\* variant: isinstance(text, (list, tuple))
call_sequence(c, text) ==
    IF text.type = "str"
    THEN Out(embed(c, text.val), <<Call("embed", text.val)>>)
    ELSE IF text.type \in {"list", "tuple"}
    THEN LET o == embed_batch(c, text.val)
         IN Out(o.res, <<Call("embed_batch", text.val)>> \o o.log)
    ELSE Out(Raise("ValueError", ValueErrorMsg), <<>>)

\* BaseEmbeddings.__call__
call(c, text) ==
    IF text.type = "str"
    THEN Out(embed(c, text.val), <<Call("embed", text.val)>>)
    ELSE IF text.type = "list"
    THEN LET o == embed_batch(c, text.val)
         IN Out(o.res, <<Call("embed_batch", text.val)>> \o o.log)
    ELSE Out(Raise("ValueError", ValueErrorMsg), <<>>)

(***************************************************************************)
(* Construction: the abstract-method check and _import_dependencies        *)
(***************************************************************************)
\* the abstract methods the class leaves undefined (ABC refuses to
\* instantiate a class that has any)
AbstractLeft(c) ==
    {m \in {"embed", "dimension", "tok"} : c[m] = "none"}

Module(k) == [name |-> "numpy", id |-> k]

\* variant: every import creates a module object of its own
ImportNumpy_fresh(installed, cache, n) ==
    IF ~installed
    THEN [res |-> Raise("ModuleNotFoundError", "No module named 'numpy'"),
          mod |-> NoModule, cache |-> cache, loads |-> n]
    ELSE [res |-> Return("None"), mod |-> Module(n + 1),
          cache |-> Module(n + 1), loads |-> n + 1]

\* the statement "import numpy": the cached module object if there is one,
\* a newly created one (entered in the cache) otherwise
ImportNumpy(installed, cache, n) ==
    IF ~installed
    THEN [res |-> Raise("ModuleNotFoundError", "No module named 'numpy'"),
          mod |-> NoModule, cache |-> cache, loads |-> n]
    ELSE IF cache = NoModule
    THEN [res |-> Return("None"), mod |-> Module(n + 1),
          cache |-> Module(n + 1), loads |-> n + 1]
    ELSE [res |-> Return("None"), mod |-> cache, cache |-> cache, loads |-> n]

\* variant: numpy is imported without asking is_available
BaseImportDependencies_nocheck(c, installed, cache, n, g) ==
    LET i == ImportNumpy(installed, cache, n)
    IN [res |-> i.res,
        np |-> IF i.res.kind = "return" THEN i.mod ELSE g,
        cache |-> i.cache, loads |-> i.loads]

\* BaseEmbeddings._import_dependencies, run to completion
BaseImportDependencies(c, installed, cache, n, g) ==
    IF is_available(c, installed)
    THEN LET i == ImportNumpy(installed, cache, n)
         IN [res |-> i.res,
             np |-> IF i.res.kind = "return" THEN i.mod ELSE g,
             cache |-> i.cache, loads |-> i.loads]
    ELSE [res |-> Raise("ImportError", ImportErrorMsg),
          np |-> g, cache |-> cache, loads |-> n]

\* self._import_dependencies(), resolved on the instance's class: a subclass
\* may extend the base step (calling it first) or replace it by its own
import_dependencies(c, installed, cache, n, g) ==
    IF c.deps = "replace"
    THEN [res |-> Return("None"), np |-> g, cache |-> cache, loads |-> n]
    ELSE BaseImportDependencies(c, installed, cache, n, g)

\* BaseEmbeddings.__init__
init(c, installed, cache, n, g) == import_dependencies(c, installed, cache, n, g)

(***************************************************************************)
(* similarity                                                              *)
(***************************************************************************)
Scale == 100

\* the Vectors similarity is tried on: one-dimensional arrays of length 1 or 2
Vecs == UNION {[1..n -> (0 - MaxCoord)..MaxCoord] : n \in 1..2}

\* the Vectors the providers produce
Embeddings == {Vec(t) : t \in Texts}

RECURSIVE SumProd(_, _, _)
SumProd(u, v, i) == IF i > Len(u) THEN 0 ELSE u[i] * v[i] + SumProd(u, v, i + 1)

\* np.dot(u, v.T) of two one-dimensional arrays of equal length
Dot(u, v) == SumProd(u, v, 1)

\* the integer square root, by bisection on lo..hi
RECURSIVE SqrtIn(_, _, _)
SqrtIn(x, lo, hi) ==
    IF lo >= hi THEN lo
    ELSE LET mid == (lo + hi + 1) \div 2
         IN IF mid * mid <= x THEN SqrtIn(x, mid, hi) ELSE SqrtIn(x, lo, mid - 1)

\* np.linalg.norm(u), in units of 1/Scale
Norm(u) == LET x == Dot(u, u) * Scale * Scale IN SqrtIn(x, 0, x)

\* np.float32(x): the score kept at a tenth of the precision
Float32(x) == x \div 10

\* variant: the denominator takes the norm of u twice
similarity_selfnorm(u, v, g) ==
    IF g = Unbound
    THEN Raise("NameError", "name 'np' is not defined")
    ELSE IF Len(u) # Len(v)
    THEN Raise("ValueError", "shapes not aligned")
    ELSE LET den == Norm(u) * Norm(u)
         IN IF den = 0
            THEN Return("nan")
            ELSE Return(Float32((Dot(u, v) * Scale * Scale * Scale) \div den))

\* BaseEmbeddings.similarity, with g the module-global np
similarity(u, v, g) ==
    IF g = Unbound
    THEN Raise("NameError", "name 'np' is not defined")
    ELSE IF Len(u) # Len(v)
    THEN Raise("ValueError", "shapes not aligned")
    ELSE LET den == Norm(u) * Norm(v)
         IN IF den = 0
            THEN Return("nan")
            ELSE Return(Float32((Dot(u, v) * Scale * Scale * Scale) \div den))

(***************************************************************************)
(* The program: one interpreter, providers constructed and used            *)
(***************************************************************************)
Threads == 1..NThreads

ClassOf(n) == CHOOSE c \in Classes : c.name = n

Op(o, n, a) == [op |-> o, cls |-> n, arg |-> a]

Init ==
    /\ numpyInstalled \in BOOLEAN
    /\ loads \in {0, 1}
    /\ loads = 1 => numpyInstalled
    /\ sysModules = IF loads = 1 THEN Module(1) ELSE NoModule
    /\ np = Unbound
    /\ instances = {}
    /\ lastOp = Op("none", "", "")
    /\ result = Return("None")
    /\ callLog = <<>>
    /\ pc = [t \in Threads |-> "idle"]
    /\ tcls = [t \in Threads |-> ""]
    /\ tmod = [t \in Threads |-> NoModule]
    /\ tobs = [t \in Threads |-> Unbound]
    /\ twrote = [t \in Threads |-> FALSE]

\* c(): the abstract-method check, then __init__
Construct(c) ==
    /\ c.name \in instances \/ Cardinality(instances) < MaxInstances
    /\ lastOp' = Op("construct", c.name, is_available(c, numpyInstalled))
    /\ callLog' = <<>>
    /\ IF AbstractLeft(c) # {}
       THEN /\ result' = Raise("TypeError", "Can't instantiate abstract class")
            /\ UNCHANGED <<envVars, instances>>
       ELSE LET o == init(c, numpyInstalled, sysModules, loads, np)
            IN /\ result' = o.res
               /\ np' = o.np
               /\ sysModules' = o.cache
               /\ loads' = o.loads
               /\ instances' = IF o.res.kind = "return"
                               THEN instances \cup {c.name} ELSE instances
               /\ UNCHANGED numpyInstalled
    /\ UNCHANGED thrVars

\* instance(text)
CallOp(n, a) ==
    /\ n \in instances
    /\ LET o == call(ClassOf(n), a)
       IN /\ result' = o.res
          /\ callLog' = o.log
    /\ lastOp' = Op("call", n, a)
    /\ UNCHANGED <<envVars, instances, thrVars>>

\* instance.embed(text)
EmbedOp(n, t) ==
    /\ n \in instances
    /\ result' = embed(ClassOf(n), t)
    /\ callLog' = <<>>
    /\ lastOp' = Op("embed", n, t)
    /\ UNCHANGED <<envVars, instances, thrVars>>

\* instance.embed_batch(texts)
EmbedBatchOp(n, texts) ==
    /\ n \in instances
    /\ LET o == embed_batch(ClassOf(n), texts)
       IN /\ result' = o.res
          /\ callLog' = o.log
    /\ lastOp' = Op("embed_batch", n, texts)
    /\ UNCHANGED <<envVars, instances, thrVars>>

\* instance.similarity(u, v)
SimilarityOp(n, u, v) ==
    /\ n \in instances
    /\ result' = similarity(u, v, np)
    /\ callLog' = <<>>
    /\ lastOp' = Op("similarity", n, <<u, v>>)
    /\ UNCHANGED <<envVars, instances, thrVars>>

\* instance.dimension
DimensionOp(n) ==
    /\ n \in instances
    /\ result' = dimension(ClassOf(n))
    /\ callLog' = <<>>
    /\ lastOp' = Op("dimension", n, "")
    /\ UNCHANGED <<envVars, instances, thrVars>>

\* instance.get_tokenizer_or_token_counter()
TokenizerOp(n) ==
    /\ n \in instances
    /\ result' = get_tokenizer_or_token_counter(ClassOf(n))
    /\ callLog' = <<>>
    /\ lastOp' = Op("tok", n, "")
    /\ UNCHANGED <<envVars, instances, thrVars>>

\* instance.is_available()
IsAvailableOp(n) ==
    /\ n \in instances
    /\ result' = Return(is_available(ClassOf(n), numpyInstalled))
    /\ callLog' = <<>>
    /\ lastOp' = Op("is_available", n, "")
    /\ UNCHANGED <<envVars, instances, thrVars>>

Next ==
    \/ \E c \in Classes : Construct(c)
    \/ \E n \in instances, a \in StrArgs : CallOp(n, a)
    \/ \E n \in instances, a \in ListArgs : CallOp(n, a)
    \/ \E n \in instances, a \in TupleArgs : CallOp(n, a)
    \/ \E n \in instances, a \in OtherArgs : CallOp(n, a)
    \/ \E n \in instances, t \in Texts : EmbedOp(n, t)
    \/ \E n \in instances, s \in TextLists : EmbedBatchOp(n, s)
    \/ \E n \in instances, u \in Embeddings, v \in Embeddings : SimilarityOp(n, u, v)
    \/ \E n \in instances : DimensionOp(n)
    \/ \E n \in instances : TokenizerOp(n)
    \/ \E n \in instances : IsAvailableOp(n)

Spec == Init /\ [][Next]_vars

(***************************************************************************)
(* Concurrent constructions: each thread runs c() step by step, and the    *)
(* interpreter may switch threads between any two steps.  "import numpy    *)
(* as np" under "global np" is an import followed by a store to the        *)
(* module-global name.                                                     *)
(***************************************************************************)
\* thread t calls c(): the abstract-method check, then __init__ is entered
TStart(t, c) ==
    /\ pc[t] = "idle"
    /\ tcls' = [tcls EXCEPT ![t] = c.name]
    /\ tmod' = [tmod EXCEPT ![t] = NoModule]
    /\ twrote' = [twrote EXCEPT ![t] = FALSE]
    /\ pc' = [pc EXCEPT ![t] =
                IF AbstractLeft(c) # {} THEN "failed"
                ELSE IF c.deps = "replace" THEN "ret"
                ELSE "check"]
    /\ UNCHANGED <<envVars, seqVars, tobs>>

\* if self.is_available(): ... else: raise ImportError(...)
TCheck(t) ==
    /\ pc[t] = "check"
    /\ pc' = [pc EXCEPT ![t] =
                IF is_available(ClassOf(tcls[t]), numpyInstalled)
                THEN "import" ELSE "failed"]
    /\ UNCHANGED <<envVars, seqVars, tcls, tmod, tobs, twrote>>

\* import numpy
TImport(t) ==
    /\ pc[t] = "import"
    /\ LET i == ImportNumpy(numpyInstalled, sysModules, loads)
       IN /\ sysModules' = i.cache
          /\ loads' = i.loads
          /\ tmod' = [tmod EXCEPT ![t] = i.mod]
          /\ pc' = [pc EXCEPT ![t] =
                      IF i.res.kind = "return" THEN "store" ELSE "failed"]
    /\ UNCHANGED <<numpyInstalled, np, seqVars, tcls, tobs, twrote>>

\* ... as np, with np declared global
TStore(t) ==
    /\ pc[t] = "store"
    /\ np' = tmod[t]
    /\ twrote' = [twrote EXCEPT ![t] = TRUE]
    /\ pc' = [pc EXCEPT ![t] = "ret"]
    /\ UNCHANGED <<numpyInstalled, sysModules, loads, seqVars, tcls, tmod, tobs>>

\* __init__ returns and the caller holds the instance
TReturn(t) ==
    /\ pc[t] = "ret"
    /\ tobs' = [tobs EXCEPT ![t] = np]
    /\ pc' = [pc EXCEPT ![t] = "done"]
    /\ UNCHANGED <<envVars, seqVars, tcls, tmod, twrote>>

\* the thread goes on to its next construction
TAgain(t) ==
    /\ pc[t] \in {"done", "failed"}
    /\ pc' = [pc EXCEPT ![t] = "idle"]
    /\ UNCHANGED <<envVars, seqVars, tcls, tmod, tobs, twrote>>

NextConc ==
    \/ \E t \in Threads, c \in Classes : TStart(t, c)
    \/ \E t \in Threads : TCheck(t)
    \/ \E t \in Threads : TImport(t)
    \/ \E t \in Threads : TStore(t)
    \/ \E t \in Threads : TReturn(t)
    \/ \E t \in Threads : TAgain(t)

SpecConc == Init /\ [][NextConc]_vars

(***************************************************************************)
(* similarity as a function of two Vectors                                 *)
(***************************************************************************)
InitSim ==
    /\ Init
    /\ numpyInstalled

\* some provider is constructed, which binds np
SimConstruct(c) ==
    /\ lastOp.op = "none"
    /\ Construct(c)

\* similarity(u, v) on the instance just constructed
SimApply(n, u, v) ==
    /\ lastOp.op = "construct"
    /\ SimilarityOp(n, u, v)

NextSim ==
    \/ \E c \in Classes : SimConstruct(c)
    \/ \E n \in instances, u \in Vecs, v \in Vecs : SimApply(n, u, v)

SpecSim == InitSim /\ [][NextSim]_vars

(***************************************************************************)
(* Properties                                                              *)
(***************************************************************************)
LastCls == ClassOf(lastOp.cls)

\* the first index of texts at which embed fails for class c, 0 if none
FirstFailure(c, texts) ==
    IF \E k \in 1..Len(texts) : embed(c, texts[k]).kind = "raise"
    THEN CHOOSE k \in 1..Len(texts) :
            /\ embed(c, texts[k]).kind = "raise"
            /\ \A j \in 1..(k - 1) : embed(c, texts[j]).kind = "return"
    ELSE 0

\* two outcomes are the same return value or the same exception
SameResult(r1, r2) ==
    /\ r1.kind = r2.kind
    /\ r1.exc = r2.exc
    /\ r1.msg = r2.msg
    /\ r1.kind = "return" => r1.val = r2.val

\* the operation invoked exactly method m with argument a first
FirstCall(m, a) ==
    /\ Len(callLog) >= 1
    /\ callLog[1].m = m
    /\ callLog[1].arg = a

\* the provider runs the acquisition step of the contract (possibly extended)
RunsBaseStep(c) == AbstractLeft(c) = {} /\ c.deps # "replace"

\* C1: for a provider that does not override embed_batch, a batch call on
\* texts whose every embed succeeds returns exactly Len(texts) results, the
\* i-th being the result of embed on the i-th text, and embed was invoked
\* once per element, in input order (repeated texts included); a batch call
\* returns normally only in that case.
C1_BatchMatchesEmbed ==
    (lastOp.op = "embed_batch" /\ LastCls.batch = "base") =>
        LET texts == lastOp.arg
            n == Len(texts)
        IN /\ (FirstFailure(LastCls, texts) = 0) <=> (result.kind = "return")
           /\ result.kind = "return" =>
                /\ Len(result.val) = n
                /\ \A i \in 1..n : result.val[i] = embed(LastCls, texts[i]).val
                /\ callLog = [i \in 1..n |-> Call("embed", texts[i])]

\* a default batch of three texts with a repetition and two distinct texts
C1_Witness ==
    /\ lastOp.op = "embed_batch"
    /\ LastCls.batch = "base"
    /\ lastOp.arg = <<"a", "ab", "a">>
    /\ result.kind = "return"

\* C2: in the default embed_batch, when embed fails first at index k, the
\* batch call raises that same failure, embed was invoked for the indices
\* 1..k only, and no list of the vectors computed before k is returned.
C2_FirstFailureAborts ==
    (lastOp.op = "embed_batch" /\ LastCls.batch = "base"
        /\ FirstFailure(LastCls, lastOp.arg) # 0) =>
        LET texts == lastOp.arg
            k == FirstFailure(LastCls, texts)
        IN /\ result.kind = "raise"
           /\ SameResult(result, embed(LastCls, texts[k]))
           /\ callLog = [i \in 1..k |-> Call("embed", texts[i])]

\* a default batch that fails at its second text, with one vector already
\* computed and one text left
C2_Witness ==
    /\ lastOp.op = "embed_batch"
    /\ LastCls.batch = "base"
    /\ lastOp.arg = <<"a", "ab", "a">>
    /\ result.exc = "EmbeddingFailure"

\* C3: calling an instance with a str gives what embed gives for it, with
\* embed invoked once and embed_batch not at all; calling it with a list
\* gives what embed_batch gives for the list, overridden or not.
C3_DispatchByType ==
    (lastOp.op = "call") =>
        /\ lastOp.arg.type = "str" =>
              /\ Len(callLog) = 1
              /\ FirstCall("embed", lastOp.arg.val)
              /\ SameResult(result, embed(LastCls, lastOp.arg.val))
        /\ lastOp.arg.type = "list" =>
              /\ FirstCall("embed_batch", lastOp.arg.val)
              /\ Tail(callLog) = embed_batch(LastCls, lastOp.arg.val).log
              /\ SameResult(result, embed_batch(LastCls, lastOp.arg.val).res)

\* a call with a str of two characters that returned one Vector
C3_Witness ==
    /\ lastOp.op = "call"
    /\ lastOp.arg.type = "str"
    /\ lastOp.arg.val = "ab"
    /\ result.kind = "return"

\* C4: calling an instance with an argument that is neither a str nor a
\* list raises ValueError, and neither embed nor embed_batch is invoked.
C4_OtherTypesRejected ==
    (lastOp.op = "call" /\ lastOp.arg.type \notin {"str", "list"}) =>
        /\ SameResult(result, Raise("ValueError", ValueErrorMsg))
        /\ callLog = <<>>

\* a call with an integer
C4_Witness ==
    /\ lastOp.op = "call"
    /\ lastOp.arg.type = "int"
    /\ result.exc = "ValueError"

\* C5: a construction that runs the contract's acquisition step and whose
\* availability check answers false raises ImportError with the message that
\* names numpy and the pip command, and produces no instance; one whose check
\* answers true and that completes has bound np to the numpy module, and it
\* completes whenever numpy can be imported.
C5_ConstructionGate ==
    (lastOp.op = "construct" /\ RunsBaseStep(LastCls)) =>
        /\ lastOp.arg = FALSE =>
              /\ SameResult(result, Raise("ImportError", ImportErrorMsg))
              /\ lastOp.cls \notin instances
        /\ lastOp.arg = TRUE =>
              /\ numpyInstalled => result.kind = "return"
              /\ result.kind = "return" =>
                    /\ np # Unbound
                    /\ np = sysModules
                    /\ lastOp.cls \in instances

\* numpy is installed, the provider's own check says no, construction failed
C5_Witness ==
    /\ lastOp.op = "construct"
    /\ lastOp.cls = "AvailFalse"
    /\ numpyInstalled
    /\ result.exc = "ImportError"
    /\ instances = {}

\* C6: every provider instance that exists has np bound, and no call of the
\* default similarity on an existing instance fails for want of np.
C6_InstancesHaveNumpy ==
    /\ instances # {} => np # Unbound
    /\ lastOp.op = "similarity" => result.exc # "NameError"

\* C7, as stated: a call with a tuple of strings gives what embed_batch
\* gives for those strings.
C7_TupleRoutedToBatch ==
    (lastOp.op = "call" /\ lastOp.arg.type = "tuple") =>
        SameResult(result, embed_batch(LastCls, lastOp.arg.val).res)

\* C7, amended: only a list is routed to embed_batch; a tuple of strings
\* raises ValueError and neither embed nor embed_batch is invoked.
C7_OnlyListsRouted ==
    (lastOp.op = "call") =>
        /\ (Len(callLog) > 0 /\ callLog[1].m = "embed_batch") <=>
              lastOp.arg.type = "list"
        /\ lastOp.arg.type = "tuple" =>
              /\ result.kind = "raise"
              /\ result.exc = "ValueError"
              /\ callLog = <<>>

\* a call with a tuple of two strings
C7_Witness ==
    /\ lastOp.op = "call"
    /\ lastOp.arg.type = "tuple"
    /\ lastOp.arg.val = <<"a", "ab">>
    /\ result.exc = "ValueError"

\* how the class supplies the capability an operation names
Supplied(c, o) ==
    CASE o = "embed" -> c.embed
      [] o = "dimension" -> c.dimension
      [] o = "tok" -> c.tok
      [] o = "is_available" -> IF c.avail = "base" THEN "super" ELSE "own"

C9_SimilaritySymmetric ==
    (lastOp.op = "similarity"
        /\ Len(lastOp.arg[1]) = Len(lastOp.arg[2])
        /\ Norm(lastOp.arg[1]) # 0 /\ Norm(lastOp.arg[2]) # 0) =>
        LET u == lastOp.arg[1]
            v == lastOp.arg[2]
            den == Norm(u) * Norm(v)
            num == Dot(u, v) * Scale * Scale * Scale
        IN /\ SameResult(result, similarity(v, u, np))
           /\ np # Unbound =>
                /\ result.kind = "return"
                /\ 10 * result.val * den <= num
                /\ num < 10 * (result.val + 1) * den
                /\ np = sysModules
           /\ instances = {lastOp.cls}

\* two Vectors of different norms that are neither parallel nor orthogonal
C9_Witness ==
    /\ lastOp.op = "similarity"
    /\ lastOp.arg = << <<1, 0>>, <<1, 1>> >>
    /\ result.kind = "return"
    /\ result.val > 0

\* C10: under any interleaving of concurrent constructions, np once bound
\* is never unbound nor bound to another value, a construction that failed
\* has not assigned np, and all constructions that ran the contract's
\* acquisition step and returned saw the same bound module.
C10_StepOk ==
    /\ np # Unbound => np' = np
    /\ \A t \in Threads : (pc'[t] = "failed" /\ pc[t] # "failed") => np' = np

C10_StateOk ==
    /\ \A t \in Threads : pc[t] = "failed" => ~twrote[t]
    /\ \A t \in Threads :
          (pc[t] = "done" /\ RunsBaseStep(ClassOf(tcls[t]))) =>
              /\ tobs[t] # Unbound
              /\ tobs[t] = sysModules
              /\ tobs[t] = np
    /\ \A t1, t2 \in Threads :
          (tobs[t1] # Unbound /\ tobs[t2] # Unbound) => tobs[t1] = tobs[t2]

C10_BindingIdempotent == [](C10_StateOk) /\ [][C10_StepOk]_vars

\* one construction has returned with np bound by itself while another,
\* which imported numpy concurrently, is about to assign np again
C10_Witness ==
    /\ pc[1] = "store"
    /\ pc[2] = "done"
    /\ tobs[2] # Unbound
    /\ twrote[2]

====
